---- MODULE Spec2Model ----
(***************************************************************************)
(* Model of the 3d-sweeper game core: the Minefield (src/game/minefield.rs) *)
(* and the Block layer (src/game/block.rs), driven frame by frame the way   *)
(* Bevy runs them: StateTransition, then the Update systems in their        *)
(* declared order camera_controls -> handle_ray_events ->                   *)
(* handle_field_events -> handle_block_events.                              *)
(*                                                                         *)
(* A Bevy Entity of a block is identified with the field index of the       *)
(* block (Block::index); Cell.block is therefore not a separate field.      *)
(***************************************************************************)
EXTENDS Integers, Sequences, FiniteSets, TLC

\* ---------------------------------------------------------------------
\* Bounds of the model
\* ---------------------------------------------------------------------
\* Length of the one-dimensional field of the configurations.
MaxLen == 3
\* Largest number of RayEvents (commands) delivered within one update frame.
MaxCmds == 2

\* Field sizes ([usize; 3]) the sessions are created with.
Sizes == {<<MaxLen, 1, 1>>}
\* Mine densities as exact fractions <<numerator, denominator>>.  All of them
\* are exactly representable as f32/f64, so the float product in
\* num_mines is exact.
Densities == {<<0, 1>>, <<1, 2>>, <<1, 1>>}
Safeties == {"Random", "Safe", "Clear"}

\* Stand-in for 2^64 in usize::wrapping_add_signed: any modulus larger than
\* every axis gives the same result of Array3::get.
UsizeModulus == 65536

VARIABLES
    field_size,     \* Minefield.cells.dim(), Settings.field_size
    density,        \* Minefield.density
    safety,         \* Minefield.safety
    state,          \* Res<State<GameState>>
    next_state,     \* ResMut<NextState<GameState>>
    game_result,    \* ResMut<GameResult>
    cells,          \* Minefield.cells : index -> Cell
    blocks,         \* the Block components : index -> Block
    display,        \* the BlockDisplay last spawned for each block
    ray_events,     \* Events<RayEvent> not yet read
    field_events,   \* Events<FieldEvent> not yet read
    block_events,   \* Events<BlockEvent> not yet read
    pc,             \* position in the frame schedule
    initCalls,      \* history: number of calls of Minefield::initialize
    firstOpen,      \* history: click_location of the first initialize
    opens,          \* history: the ClearBlock events processed this frame
    disclosed,      \* history: the BlockEvents handled this frame
    cmds,           \* history: the RayEvents delivered this frame
    frame0          \* history: the program state when the frame began

vars == <<field_size, density, safety, state, next_state, game_result, cells,
          blocks, display, ray_events, field_events, block_events, pc,
          initCalls, firstOpen, opens, disclosed, cmds, frame0>>

\* ---------------------------------------------------------------------
\* Data
\* ---------------------------------------------------------------------
None == [tag |-> "None"]
Mine == [tag |-> "Mine"]
Empty(n) == [tag |-> "Empty", adjacent_mines |-> n]

IsMine(c) == c.contains.tag = "Mine"

\* Cell::default(): Contains::default() is Empty { adjacent_mines: 0 }.
DefaultCell == [contains |-> Empty(0), revealed |-> FALSE]

\* Block::new
NewBlock == [marked |-> FALSE, revealed |-> None]

IndicesOf(size) ==
    {<<i, j, k>> : i \in 0..(size[1] - 1), j \in 0..(size[2] - 1), k \in 0..(size[3] - 1)}

Indices == IndicesOf(field_size)

\* The n-th offset of the loops "for i_off in -1..=1 { for j_off .. { for k_off",
\* n = 0..26; n = 13 is (0, 0, 0).
Offset(n) == <<(n \div 9) - 1, ((n \div 3) % 3) - 1, (n % 3) - 1>>

wrapping_add_signed(i, off) == (i + off + UsizeModulus) % UsizeModulus

AdjIndex(index, n) ==
    <<wrapping_add_signed(index[1], Offset(n)[1]),
      wrapping_add_signed(index[2], Offset(n)[2]),
      wrapping_add_signed(index[3], Offset(n)[3])>>

\* The indices f is called with by foreach_adjacent(index, f).
foreach_adjacent(index) ==
    {AdjIndex(index, n) : n \in (0..26) \ {13}} \cap Indices

\* ---------------------------------------------------------------------
\* Minefield::initialize
\* ---------------------------------------------------------------------
\* The product rounded to the nearest integer instead of truncated.
num_mines_rounded ==
    (2 * Cardinality(Indices) * density[1] + density[2]) \div (2 * density[2])

\* (num_blocks as f64 * self.density) as usize: the cast truncates.
num_mines == (Cardinality(Indices) * density[1]) \div density[2]

\* The safe cells with Safety::Clear keeping only the clicked cell free.
safe_cells_clear_as_safe(click_location) ==
    CASE safety = "Random" -> {}
      [] safety = "Safe" -> {click_location}
      [] safety = "Clear" -> {click_location}

safe_cells(click_location) ==
    CASE safety = "Random" -> {}
      [] safety = "Safe" -> {click_location}
      [] safety = "Clear" -> {click_location} \cup foreach_adjacent(click_location)

random_cells(click_location) == Indices \ safe_cells(click_location)

\* The values rng.gen_bool(self.density) can return.
gen_bool ==
    IF density[1] = 0 THEN {FALSE}
    ELSE IF density[1] = density[2] THEN {TRUE}
    ELSE BOOLEAN

\* One iteration of the placement loop on a walk w = [rest, mines, to_place]:
\* rest are the cells of random_cells not yet visited (the shuffle lets any
\* of them come next), mines the cells set to Contains::Mine so far.
PlaceStep(w) ==
    LET cells_remaining == Cardinality(w.rest)
        forced == cells_remaining <= w.to_place
        place == forced \/ TRUE \in gen_bool
        skip == ~forced /\ FALSE \in gen_bool
    IN  {[rest |-> w.rest \ {index},
          mines |-> w.mines \cup {index},
          to_place |-> w.to_place - 1] : index \in {i \in w.rest : place}}
        \cup
        {[rest |-> w.rest \ {index},
          mines |-> w.mines,
          to_place |-> w.to_place] : index \in {i \in w.rest : skip}}

\* The placement loop: ends when mines_to_place is 0 or random_cells is used up.
\* Once cells_remaining <= mines_to_place every later iteration places a
\* mine (both numbers go down by one), so such a walk ends with a mine on
\* each cell of rest, whatever the order.
RECURSIVE PlaceMines(_)
PlaceMines(W) ==
    LET done == {w \in W : w.to_place = 0 \/ w.rest = {}}
        filled == {w \in W \ done : Cardinality(w.rest) <= w.to_place}
        live == (W \ done) \ filled
    IN  {w.mines : w \in done} \cup {w.mines \cup w.rest : w \in filled} \cup
        (IF live = {} THEN {} ELSE PlaceMines(UNION {PlaceStep(w) : w \in live}))

\* "Determine adjacent value in each cell": every cell that is a mine now
\* increments adjacent_mines of each of its in-grid Empty neighbours.
increment_adjacent(cs) ==
    LET mines == {i \in DOMAIN cs : IsMine(cs[i])}
    IN  [i \in DOMAIN cs |->
            IF IsMine(cs[i]) THEN cs[i]
            ELSE [cs[i] EXCEPT !.contains =
                    Empty(@.adjacent_mines
                          + Cardinality({m \in mines : i \in foreach_adjacent(m)}))]]

\* The cell arrays initialize can leave behind, over every shuffle and every
\* sequence of gen_bool draws.
initialize(cs, click_location) ==
    LET placed == PlaceMines({[rest |-> random_cells(click_location),
                               mines |-> {},
                               to_place |-> num_mines]})
    IN  {increment_adjacent([i \in DOMAIN cs |->
                                IF i \in p THEN [cs[i] EXCEPT !.contains = Mine]
                                ELSE cs[i]]) : p \in placed}

\* ---------------------------------------------------------------------
\* Minefield::reveal_adjacent, Minefield::fully_revealed
\* ---------------------------------------------------------------------
BlockClear(id, contains) == [type |-> "Clear", id |-> id, contains |-> contains]
BlockMark(id) == [type |-> "Mark", id |-> id, contains |-> None]
BlockEndReveal(id, contains) == [type |-> "EndReveal", id |-> id, contains |-> contains]

\* The first position n..26 of the offset loops whose adj_index is a valid
\* index of the array ((0, 0, 0) and the positions where Array3::get_mut is
\* None are passed over by "continue"); 27 when there is none.
NextValid(cs, index, n) ==
    LET valid == {m \in n..26 : m # 13 /\ AdjIndex(index, m) \in DOMAIN cs}
    IN  IF valid = {} THEN 27
        ELSE CHOOSE m \in valid : \A k \in valid : m <= k

\* reveal_adjacent recursing into every revealed neighbour, whatever its
\* adjacent_mines.
RECURSIVE reveal_adjacent_always(_, _, _)
reveal_adjacent_always(f, index, n) ==
    LET m == NextValid(f.cells, index, n) IN
    IF m > 26 THEN f
    ELSE LET adj_index == AdjIndex(index, m)
             adj == f.cells[adj_index]
         IN  IF adj.revealed THEN reveal_adjacent_always(f, index, m + 1)
             ELSE IF IsMine(adj) THEN reveal_adjacent_always(f, index, m + 1)
             ELSE LET f1 == [cells |-> [f.cells EXCEPT ![adj_index].revealed = TRUE],
                             out |-> Append(f.out, BlockClear(adj_index, adj.contains))]
                  IN  reveal_adjacent_always(reveal_adjacent_always(f1, adj_index, 0),
                                             index, m + 1)

\* reveal_adjacent passing over a revealed neighbour only when it has no
\* adjacent mines: a revealed neighbour with a number is sent again.
RECURSIVE reveal_adjacent_revisit(_, _, _)
reveal_adjacent_revisit(f, index, n) ==
    LET m == NextValid(f.cells, index, n) IN
    IF m > 26 THEN f
    ELSE LET adj_index == AdjIndex(index, m)
             adj == f.cells[adj_index]
         IN  IF IsMine(adj) THEN reveal_adjacent_revisit(f, index, m + 1)
             ELSE IF adj.revealed /\ adj.contains.adjacent_mines = 0
                  THEN reveal_adjacent_revisit(f, index, m + 1)
             ELSE LET f1 == [cells |-> [f.cells EXCEPT ![adj_index].revealed = TRUE],
                             out |-> Append(f.out, BlockClear(adj_index, adj.contains))]
                      f2 == IF adj.contains.adjacent_mines = 0
                            THEN reveal_adjacent_revisit(f1, adj_index, 0)
                            ELSE f1
                  IN  reveal_adjacent_revisit(f2, index, m + 1)

\* reveal_adjacent without the recursive call: only the neighbours of the
\* opened cell are revealed.
reveal_adjacent_no_recursion(f, index, n) ==
    LET hit == {i \in foreach_adjacent(index) : ~f.cells[i].revealed /\ ~IsMine(f.cells[i])}
        order == CHOOSE q \in [1..Cardinality(hit) -> hit] :
                    \A a, b \in 1..Cardinality(hit) : a # b => q[a] # q[b]
    IN  [cells |-> [i \in DOMAIN f.cells |->
                       IF i \in hit THEN [f.cells[i] EXCEPT !.revealed = TRUE]
                       ELSE f.cells[i]],
         out |-> f.out \o [a \in 1..Cardinality(hit) |->
                              BlockClear(order[a], f.cells[order[a]].contains)]]

\* f = [cells, out]: the cell array and the BlockEvents sent so far;
\* n is the position in the offset loops of this call.
RECURSIVE reveal_adjacent(_, _, _)
reveal_adjacent(f, index, n) ==
    LET m == NextValid(f.cells, index, n) IN
    IF m > 26 THEN f
    ELSE LET adj_index == AdjIndex(index, m)
             adj == f.cells[adj_index]
         IN  IF adj.revealed THEN reveal_adjacent(f, index, m + 1)
             ELSE IF IsMine(adj) THEN reveal_adjacent(f, index, m + 1)
             ELSE LET f1 == [cells |-> [f.cells EXCEPT ![adj_index].revealed = TRUE],
                             out |-> Append(f.out, BlockClear(adj_index, adj.contains))]
                      f2 == IF adj.contains.adjacent_mines = 0
                            THEN reveal_adjacent(f1, adj_index, 0)
                            ELSE f1
                  IN  reveal_adjacent(f2, index, m + 1)

\* fully_revealed asking for every cell, mines included, to be revealed.
fully_revealed_every_cell(cs) ==
    \A i \in DOMAIN cs : cs[i].revealed

fully_revealed(cs) ==
    \A i \in DOMAIN cs : ~(~cs[i].revealed /\ ~IsMine(cs[i]))

\* ---------------------------------------------------------------------
\* The program state the systems work on, as one record
\* ---------------------------------------------------------------------
Prog ==
    [state |-> state, next_state |-> next_state, game_result |-> game_result,
     cells |-> cells, blocks |-> blocks, display |-> display,
     field_events |-> field_events, block_events |-> block_events,
     initCalls |-> initCalls, firstOpen |-> firstOpen,
     opens |-> opens, disclosed |-> disclosed]

\* playable() that lets moves through in every in-game state, GameOver
\* included.
playable_in_game(st) == st = "GameStart" \/ st = "GamePlaying" \/ st = "GameOver"

\* GameState::playable(), GameState::in_game()
playable(st) == st = "GameStart" \/ st = "GamePlaying"
in_game(st) == st = "GameStart" \/ st = "GamePlaying" \/ st = "GameOver"

\* ---------------------------------------------------------------------
\* block.rs: raycast_blocks, handle_ray_events
\* ---------------------------------------------------------------------
RayClearBlock(aim) == [kind |-> "ClearBlock", aim |-> aim]
RayMarkBlock(aim) == [kind |-> "MarkBlock", aim |-> aim]

\* A ray is identified with the block it is aimed at.  Only blocks whose
\* revealed is None are candidates for a hit; the result is an Option,
\* written as a set of at most one index.
raycast_blocks(bs, ray) ==
    {i \in {ray.aim} \cap DOMAIN bs : bs[i].revealed = None}

FieldClearBlock(index) == [type |-> "ClearBlock", index |-> index]

\* handle_ray_events sending the field a ClearBlock for a MarkBlock as well.
RayEventStep_mark_opens(s, ray_event) ==
    LET hit == raycast_blocks(s.blocks, ray_event) IN
    IF hit = {} THEN s
    ELSE LET index == CHOOSE i \in hit : TRUE IN
         IF ray_event.kind = "ClearBlock"
         THEN IF ~s.blocks[index].marked
              THEN [s EXCEPT !.field_events = Append(@, FieldClearBlock(index))]
              ELSE s
         ELSE [s EXCEPT !.block_events = Append(@, BlockMark(index)),
                        !.field_events = Append(@, FieldClearBlock(index))]

RayEventStep(s, ray_event) ==
    LET hit == raycast_blocks(s.blocks, ray_event) IN
    IF hit = {} THEN s
    ELSE LET index == CHOOSE i \in hit : TRUE IN
         IF ray_event.kind = "ClearBlock"
         THEN IF ~s.blocks[index].marked
              THEN [s EXCEPT !.field_events = Append(@, FieldClearBlock(index))]
              ELSE s
         ELSE [s EXCEPT !.block_events = Append(@, BlockMark(index))]

RECURSIVE handle_ray_events(_, _)
handle_ray_events(s, rays) ==
    IF rays = <<>> THEN s
    ELSE handle_ray_events(RayEventStep(s, Head(rays)), Tail(rays))

\* ---------------------------------------------------------------------
\* minefield.rs: handle_field_events, reveal_all
\* ---------------------------------------------------------------------
\* The arm running the flood fill whatever the opened cell contains.
ClearBlockRest_always_fill(s, cs2, index, start) ==
    LET contains == cs2[index].contains
        f0 == [cells |-> cs2,
               out |-> Append(s.block_events, BlockClear(index, contains))]
        f1 == reveal_adjacent(f0, index, 0)
        won == fully_revealed(f1.cells)
    IN  [s EXCEPT
            !.cells = f1.cells,
            !.block_events = f1.out,
            !.next_state = IF won THEN "GameOver"
                           ELSE IF start THEN "GamePlaying" ELSE @,
            !.game_result = IF won THEN "Victory" ELSE @,
            !.initCalls = IF start THEN @ + 1 ELSE @,
            !.firstOpen = IF start /\ @ = {} THEN {index} ELSE @,
            !.opens = Append(@, [index |-> index,
                                 hidden |-> ~s.cells[index].revealed,
                                 init |-> start,
                                 before |-> cs2,
                                 after |-> f1.cells,
                                 sent |-> SubSeq(f1.out, Len(s.block_events) + 1, Len(f1.out)),
                                 next_state |-> IF won THEN "GameOver"
                                                ELSE IF start THEN "GamePlaying"
                                                ELSE s.next_state,
                                 game_result |-> IF won THEN "Victory" ELSE s.game_result])]

\* The arm FieldEvent::ClearBlock(index) after the cell was found: cs1 is the
\* cell array with cell.revealed = true, cs2 one result of the (possible)
\* initialize.
ClearBlockRest(s, cs2, index, start) ==
    LET contains == cs2[index].contains
        f0 == [cells |-> cs2,
               out |-> Append(s.block_events, BlockClear(index, contains))]
        f1 == IF contains.tag = "Empty" /\ contains.adjacent_mines = 0
              THEN reveal_adjacent(f0, index, 0)
              ELSE f0
        won == fully_revealed(f1.cells)
    IN  [s EXCEPT
            !.cells = f1.cells,
            !.block_events = f1.out,
            !.next_state = IF won THEN "GameOver"
                           ELSE IF start THEN "GamePlaying" ELSE @,
            !.game_result = IF won THEN "Victory" ELSE @,
            !.initCalls = IF start THEN @ + 1 ELSE @,
            !.firstOpen = IF start /\ @ = {} THEN {index} ELSE @,
            !.opens = Append(@, [index |-> index,
                                 hidden |-> ~s.cells[index].revealed,
                                 init |-> start,
                                 before |-> cs2,
                                 after |-> f1.cells,
                                 sent |-> SubSeq(f1.out, Len(s.block_events) + 1, Len(f1.out)),
                                 next_state |-> IF won THEN "GameOver"
                                                ELSE IF start THEN "GamePlaying"
                                                ELSE s.next_state,
                                 game_result |-> IF won THEN "Victory" ELSE s.game_result])]

\* The arm with the GameStart branch (transition and initialize) ahead of
\* the lookup of the cell.
ClearBlock_init_first(s, index) ==
    LET start == s.state = "GameStart" IN
    IF index \notin DOMAIN s.cells
    THEN IF start
         THEN {[s EXCEPT !.cells = cs2,
                         !.next_state = "GamePlaying",
                         !.initCalls = @ + 1,
                         !.firstOpen = IF @ = {} THEN {index} ELSE @] :
                  cs2 \in initialize(s.cells, index)}
         ELSE {s}
    ELSE LET cs1 == [s.cells EXCEPT ![index].revealed = TRUE]
         IN  {ClearBlockRest(s, cs2, index, start) :
                 cs2 \in IF start THEN initialize(cs1, index) ELSE {cs1}}

\* The arm FieldEvent::ClearBlock(index): the set of results over the
\* outcomes of initialize.
ClearBlock(s, index) ==
    IF index \notin DOMAIN s.cells THEN {s}
    ELSE LET cs1 == [s.cells EXCEPT ![index].revealed = TRUE]
             start == s.state = "GameStart"
         IN  {ClearBlockRest(s, cs2, index, start) :
                 cs2 \in IF start THEN initialize(cs1, index) ELSE {cs1}}

RECURSIVE handle_field_events(_, _)
handle_field_events(S, events) ==
    IF events = <<>> THEN S
    ELSE handle_field_events(UNION {ClearBlock(s, Head(events).index) : s \in S},
                             Tail(events))

\* Array3 iterates in row-major order: the n-th index, n = 0..N-1.
IndexAt(n) ==
    <<n \div (field_size[2] * field_size[3]),
      (n \div field_size[3]) % field_size[2],
      n % field_size[3]>>

\* reveal_all passing over the cells that are already revealed.
RECURSIVE reveal_all_hidden_only(_, _)
reveal_all_hidden_only(s, n) ==
    IF n >= Cardinality(DOMAIN s.cells) THEN s
    ELSE IF s.cells[IndexAt(n)].revealed THEN reveal_all_hidden_only(s, n + 1)
    ELSE reveal_all_hidden_only(
             [s EXCEPT
                 !.cells[IndexAt(n)].revealed = TRUE,
                 !.block_events =
                     Append(@, BlockEndReveal(IndexAt(n), s.cells[IndexAt(n)].contains))],
             n + 1)

RECURSIVE reveal_all(_, _)
reveal_all(s, n) ==
    IF n >= Cardinality(DOMAIN s.cells) THEN s
    ELSE reveal_all([s EXCEPT
                        !.cells[IndexAt(n)].revealed = TRUE,
                        !.block_events =
                            Append(@, BlockEndReveal(IndexAt(n), s.cells[IndexAt(n)].contains))],
                    n + 1)

\* ---------------------------------------------------------------------
\* block.rs: handle_block_events
\* ---------------------------------------------------------------------
Hidden == [kind |-> "Hidden"]
Marked == [kind |-> "Marked"]
Revealed(n) == [kind |-> "Revealed", adjacent_mines |-> n]
RevealedMine == [kind |-> "RevealedMine"]
MarkedMine == [kind |-> "MarkedMine"]
MissedMine == [kind |-> "MissedMine"]

\* BlockDisplay::spawn of Revealed { adjacent_mines }: fives_place =
\* adjacent_mines / 5 above 4 reaches panic!("more than 24 adjacent mines is
\* not supported (should not be possible)").
MaxDisplayed == 24
Panic == [kind |-> "panic"]
RevealedDisplay(n) == IF n > MaxDisplayed THEN Panic ELSE Revealed(n)

\* handle_block_events queueing GameStart instead of GameOver when a mine is
\* cleared.
BlockEventStep_restart(s, event) ==
    LET id == event.id
        block == s.blocks[id]
        contains == event.contains
    IN  CASE event.type = "Clear" ->
               [s EXCEPT
                   !.blocks[id].revealed = contains,
                   !.display[id] = IF contains.tag = "Mine" THEN RevealedMine
                                   ELSE RevealedDisplay(contains.adjacent_mines),
                   !.next_state = IF contains.tag = "Mine" THEN "GameStart" ELSE @]
          [] event.type = "EndReveal" ->
               [s EXCEPT
                   !.display[id] =
                       IF contains.tag = "Mine" /\ block.revealed # None THEN MissedMine
                       ELSE IF contains.tag = "Mine" /\ block.marked THEN MarkedMine
                       ELSE IF contains.tag = "Mine" THEN RevealedMine
                       ELSE RevealedDisplay(contains.adjacent_mines),
                   !.blocks[id].revealed =
                       IF contains.tag = "Empty" /\ contains.adjacent_mines > MaxDisplayed
                       THEN @ ELSE contains]
          [] event.type = "Mark" ->
               [s EXCEPT
                   !.blocks[id].marked = ~block.marked,
                   !.display[id] = IF block.marked THEN Hidden ELSE Marked]

\* handle_block_events whose Mark arm sets the mark instead of toggling it.
BlockEventStep_mark_sets(s, event) ==
    LET id == event.id
        block == s.blocks[id]
        contains == event.contains
    IN  CASE event.type = "Clear" ->
               [s EXCEPT
                   !.blocks[id].revealed = contains,
                   !.display[id] = IF contains.tag = "Mine" THEN RevealedMine
                                   ELSE RevealedDisplay(contains.adjacent_mines),
                   !.next_state = IF contains.tag = "Mine" THEN "GameOver" ELSE @]
          [] event.type = "EndReveal" ->
               [s EXCEPT
                   !.display[id] =
                       IF contains.tag = "Mine" /\ block.revealed # None THEN MissedMine
                       ELSE IF contains.tag = "Mine" /\ block.marked THEN MarkedMine
                       ELSE IF contains.tag = "Mine" THEN RevealedMine
                       ELSE RevealedDisplay(contains.adjacent_mines),
                   !.blocks[id].revealed =
                       IF contains.tag = "Empty" /\ contains.adjacent_mines > MaxDisplayed
                       THEN @ ELSE contains]
          [] event.type = "Mark" ->
               [s EXCEPT
                   !.blocks[id].marked = TRUE,
                   !.display[id] = Marked]

\* handle_block_events whose Clear arm leaves a marked block as it is.
BlockEventStep_marked_stays(s, event) ==
    LET id == event.id
        block == s.blocks[id]
        contains == event.contains
    IN  CASE event.type = "Clear" /\ block.marked -> s
          [] event.type = "Clear" /\ ~block.marked ->
               [s EXCEPT
                   !.blocks[id].revealed = contains,
                   !.display[id] = IF contains.tag = "Mine" THEN RevealedMine
                                   ELSE RevealedDisplay(contains.adjacent_mines),
                   !.next_state = IF contains.tag = "Mine" THEN "GameOver" ELSE @]
          [] event.type = "EndReveal" ->
               [s EXCEPT
                   !.display[id] =
                       IF contains.tag = "Mine" /\ block.revealed # None THEN MissedMine
                       ELSE IF contains.tag = "Mine" /\ block.marked THEN MarkedMine
                       ELSE IF contains.tag = "Mine" THEN RevealedMine
                       ELSE RevealedDisplay(contains.adjacent_mines),
                   !.blocks[id].revealed =
                       IF contains.tag = "Empty" /\ contains.adjacent_mines > MaxDisplayed
                       THEN @ ELSE contains]
          [] event.type = "Mark" ->
               [s EXCEPT
                   !.blocks[id].marked = ~block.marked,
                   !.display[id] = IF block.marked THEN Hidden ELSE Marked]

\* handle_block_events whose EndReveal arm does not single out the mines
\* that were revealed during play.
BlockEventStep_no_triggered(s, event) ==
    LET id == event.id
        block == s.blocks[id]
        contains == event.contains
    IN  CASE event.type = "Clear" ->
               [s EXCEPT
                   !.blocks[id].revealed = contains,
                   !.display[id] = IF contains.tag = "Mine" THEN RevealedMine
                                   ELSE RevealedDisplay(contains.adjacent_mines),
                   !.next_state = IF contains.tag = "Mine" THEN "GameOver" ELSE @]
          [] event.type = "EndReveal" ->
               [s EXCEPT
                   !.display[id] =
                       IF contains.tag = "Mine" /\ block.marked THEN MarkedMine
                       ELSE IF contains.tag = "Mine" THEN RevealedMine
                       ELSE RevealedDisplay(contains.adjacent_mines),
                   !.blocks[id].revealed =
                       IF contains.tag = "Empty" /\ contains.adjacent_mines > MaxDisplayed
                       THEN @ ELSE contains]
          [] event.type = "Mark" ->
               [s EXCEPT
                   !.blocks[id].marked = ~block.marked,
                   !.display[id] = IF block.marked THEN Hidden ELSE Marked]

BlockEventStep(s, event) ==
    LET id == event.id
        block == s.blocks[id]
        contains == event.contains
    IN  CASE event.type = "Clear" ->
               [s EXCEPT
                   !.blocks[id].revealed = contains,
                   !.display[id] = IF contains.tag = "Mine" THEN RevealedMine
                                   ELSE RevealedDisplay(contains.adjacent_mines),
                   !.next_state = IF contains.tag = "Mine" THEN "GameOver" ELSE @]
          [] event.type = "EndReveal" ->
               [s EXCEPT
                   !.display[id] =
                       IF contains.tag = "Mine" /\ block.revealed # None THEN MissedMine
                       ELSE IF contains.tag = "Mine" /\ block.marked THEN MarkedMine
                       ELSE IF contains.tag = "Mine" THEN RevealedMine
                       ELSE RevealedDisplay(contains.adjacent_mines),
                   !.blocks[id].revealed =
                       IF contains.tag = "Empty" /\ contains.adjacent_mines > MaxDisplayed
                       THEN @ ELSE contains]
          [] event.type = "Mark" ->
               [s EXCEPT
                   !.blocks[id].marked = ~block.marked,
                   !.display[id] = IF block.marked THEN Hidden ELSE Marked]

\* The loop over block_events.read(); a panic in BlockDisplay::spawn ends it.
RECURSIVE BlockEventLoop(_, _)
BlockEventLoop(s, events) ==
    IF events = <<>> THEN s
    ELSE LET t == BlockEventStep(s, Head(events))
         IN  IF t.display[Head(events).id] = Panic THEN t
             ELSE BlockEventLoop(t, Tail(events))

Panicked(s) == \E i \in DOMAIN s.display : s.display[i] = Panic

handle_block_events(s) ==
    [BlockEventLoop(s, s.block_events) EXCEPT
        !.disclosed = s.block_events,
        !.block_events = <<>>]

\* ---------------------------------------------------------------------
\* The session: construction and the frame schedule
\* ---------------------------------------------------------------------
\* The commands camera_controls can deliver in one frame.
RayEvents == [kind : {"ClearBlock", "MarkBlock"}, aim : Indices]
RaySeqs == UNION {[1..n -> RayEvents] : n \in 0..MaxCmds}

\* The frames of the sessions on the larger fields: one ClearBlock or nothing.
FieldSizes == {<<3, 2, 1>>}
FieldDensities == {<<1, 4>>, <<1, 2>>}
ClearSeqs == {<<>>} \cup {<<RayClearBlock(aim)>> : aim \in Indices}

\* The value of the GameResult resource when a session starts.
GameResultDefault == "Defeat"

\* minefield.rs spawn and block.rs setup, run on entering GameStart.
spawn(size) ==
    [state |-> "GameStart", next_state |-> "None", game_result |-> GameResultDefault,
     cells |-> [i \in IndicesOf(size) |-> DefaultCell],
     blocks |-> [i \in IndicesOf(size) |-> NewBlock],
     display |-> [i \in IndicesOf(size) |-> Hidden],
     field_events |-> <<>>, block_events |-> <<>>,
     initCalls |-> 0, firstOpen |-> {}, opens |-> <<>>, disclosed |-> <<>>]

\* The next values of the variables that make up the program state.
Becomes(s) ==
    /\ state' = s.state
    /\ next_state' = s.next_state
    /\ game_result' = s.game_result
    /\ cells' = s.cells
    /\ blocks' = s.blocks
    /\ display' = s.display
    /\ field_events' = s.field_events
    /\ block_events' = s.block_events
    /\ initCalls' = s.initCalls
    /\ firstOpen' = s.firstOpen
    /\ opens' = s.opens
    /\ disclosed' = s.disclosed

Configured(sizes, densities) ==
    /\ field_size \in sizes
    /\ density \in densities
    /\ safety \in Safeties
    /\ state = "GameStart"
    /\ next_state = "None"
    /\ game_result = GameResultDefault
    /\ cells = spawn(field_size).cells
    /\ blocks = spawn(field_size).blocks
    /\ display = spawn(field_size).display
    /\ ray_events = <<>>
    /\ field_events = <<>>
    /\ block_events = <<>>
    /\ pc = "StateTransition"
    /\ initCalls = 0
    /\ firstOpen = {}
    /\ opens = <<>>
    /\ disclosed = <<>>
    /\ cmds = <<>>
    /\ frame0 = spawn(field_size)

\* Bevy's apply_state_transition: the queued NextState is taken; when it
\* differs from the current state the OnEnter systems run, and
\* OnEnter(GameOver) is reveal_all.
apply_state_transition(s) ==
    IF s.next_state = "None" \/ s.next_state = s.state
    THEN [s EXCEPT !.next_state = "None"]
    ELSE LET s1 == [s EXCEPT !.state = s.next_state, !.next_state = "None"]
         IN  IF s1.state = "GameOver" THEN reveal_all(s1, 0) ELSE s1

\* The queued state change without the OnEnter systems.
apply_next_state(s) ==
    IF s.next_state = "None" THEN s
    ELSE [s EXCEPT !.state = s.next_state, !.next_state = "None"]

\* The Update systems behind their run_if conditions.
RaySystem(s, rays) == IF playable(s.state) THEN handle_ray_events(s, rays) ELSE s

FieldSystem(s) ==
    IF playable(s.state)
    THEN {[t EXCEPT !.field_events = <<>>] : t \in handle_field_events({s}, s.field_events)}
    ELSE {s}

BlockSystem(s) == IF in_game(s.state) THEN handle_block_events(s) ELSE s

\* The results of one Update on the RayEvents rays.
UpdateOutcomes(s, rays) == {BlockSystem(f) : f \in FieldSystem(RaySystem(s, rays))}

StateTransition ==
    /\ pc = "StateTransition"
    /\ Becomes([apply_state_transition(Prog) EXCEPT !.opens = <<>>, !.disclosed = <<>>])
    /\ pc' = "camera_controls"
    /\ cmds' = <<>>
    /\ frame0' = spawn(field_size)
    /\ UNCHANGED <<field_size, density, safety, ray_events>>

\* camera_controls turns the frame's InputEvents into RayEvents.
CameraEmits(seqs) ==
    /\ pc = "camera_controls"
    /\ \E rays \in seqs :
          /\ ray_events' = rays
          /\ cmds' = rays
    /\ frame0' = Prog
    /\ pc' = "handle_ray_events"
    /\ UNCHANGED <<field_size, density, safety, state, next_state, game_result,
                   cells, blocks, display, field_events, block_events,
                   initCalls, firstOpen, opens, disclosed>>

CameraControls == CameraEmits(RaySeqs)

\* The player clicks on one block or on none.
CameraClearOnly == CameraEmits(ClearSeqs)

HandleRayEvents ==
    /\ pc = "handle_ray_events"
    /\ Becomes(RaySystem(Prog, ray_events))
    /\ ray_events' = <<>>
    /\ pc' = "handle_field_events"
    /\ UNCHANGED <<field_size, density, safety, cmds, frame0>>

\* handle_field_events leaving the field with the density used up.
HandleFieldEvents_density_spent ==
    /\ pc = "handle_field_events"
    /\ \E s \in FieldSystem(Prog) : Becomes(s)
    /\ pc' = "handle_block_events"
    /\ density' = IF initCalls' > initCalls THEN <<0, 1>> ELSE density
    /\ UNCHANGED <<field_size, safety, ray_events, cmds, frame0>>

HandleFieldEvents ==
    /\ pc = "handle_field_events"
    /\ \E s \in FieldSystem(Prog) : Becomes(s)
    /\ pc' = "handle_block_events"
    /\ UNCHANGED <<field_size, density, safety, ray_events, cmds, frame0>>

HandleBlockEvents ==
    /\ pc = "handle_block_events"
    /\ Becomes(BlockSystem(Prog))
    /\ pc' = IF Panicked(BlockSystem(Prog)) THEN "panicked" ELSE "StateTransition"
    /\ UNCHANGED <<field_size, density, safety, ray_events, cmds, frame0>>

Next ==
    \/ StateTransition
    \/ CameraControls
    \/ HandleRayEvents
    \/ HandleFieldEvents
    \/ HandleBlockEvents

Init == Configured(Sizes, Densities)

Spec == Init /\ [][Next]_vars

\* Sessions on the larger fields, played with one open command per frame.
InitField == Configured(FieldSizes, FieldDensities)

NextField ==
    \/ StateTransition
    \/ CameraClearOnly
    \/ HandleRayEvents
    \/ HandleFieldEvents
    \/ HandleBlockEvents

SpecField == InitField /\ [][NextField]_vars

\* Sessions on the 3x3x3 field at density 1.0 under Safety::Random and
\* Safety::Safe, one open command per frame.
CubeSizes == {<<3, 3, 3>>}
CubeDensities == {<<1, 1>>}
InitCube == Configured(CubeSizes, CubeDensities) /\ safety \in {"Random", "Safe"}
SpecCube == InitCube /\ [][NextField]_vars

\* Sessions driven at the FieldEvent interface: handle_field_events reads
\* whatever ClearBlock events were sent, also with an index outside the grid.
OutOfGrid == {<<field_size[1], 0, 0>>, <<0, field_size[2], field_size[3]>>}
FieldEventSeqs ==
    UNION {[1..n -> {FieldClearBlock(i) : i \in Indices \cup OutOfGrid}] : n \in 0..MaxCmds}

\* FieldEvents are sent by systems that run only if the state is playable.
SendFieldEvents ==
    /\ pc = "camera_controls"
    /\ \E evs \in (IF playable(state) THEN FieldEventSeqs ELSE {<<>>}) :
          /\ field_events' = evs
          /\ frame0' = [Prog EXCEPT !.field_events = evs]
    /\ cmds' = <<>>
    /\ pc' = "handle_field_events"
    /\ UNCHANGED <<field_size, density, safety, state, next_state, game_result,
                   cells, blocks, display, ray_events, block_events,
                   initCalls, firstOpen, opens, disclosed>>

NextEvents ==
    \/ StateTransition
    \/ SendFieldEvents
    \/ HandleFieldEvents
    \/ HandleBlockEvents

SpecEvents == Init /\ [][NextEvents]_vars

\* ---------------------------------------------------------------------
\* Properties
\* ---------------------------------------------------------------------
MinesOf(cs) == {i \in DOMAIN cs : cs[i].contains.tag = "Mine"}
RevealedOf(cs) == {i \in DOMAIN cs : cs[i].revealed}
\* The in-grid 26-neighbours of index: the 3x3x3 box around it minus itself.
Neighbors(index) ==
    {i \in Indices : /\ i # index
                     /\ \A d \in 1..3 : i[d] - index[d] \in {-1, 0, 1}}
FrameDone == pc = "StateTransition"
SomeOpenProcessed == \E i \in Indices : cells[i].revealed

\* C1: mine placement (Minefield::initialize) runs exactly once per session,
\* when the first open command is processed, also when several open commands
\* arrive in the same frame while the session is in GameStart.
C1_InitializeExactlyOnce ==
    /\ initCalls <= 1
    /\ SomeOpenProcessed => initCalls = 1

\* C2: under Safe the first-opened cell never contains a mine, under Clear
\* neither the first-opened cell nor any of its in-grid neighbours does, in
\* every state from the initialization on.
C2_SafetyPolicyHolds ==
    \A c \in firstOpen :
        /\ safety = "Safe" => c \notin MinesOf(cells)
        /\ safety = "Clear" => ({c} \cup Neighbors(c)) \cap MinesOf(cells) = {}

\* C3: after initialization with num_mines <= |candidates| exactly num_mines
\* cells contain a mine.
C3_ExactMineCount ==
    \A c \in firstOpen :
        num_mines <= Cardinality(Indices \ (CASE safety = "Random" -> {}
                                              [] safety = "Safe" -> {c}
                                              [] safety = "Clear" -> {c} \cup Neighbors(c)))
        => Cardinality(MinesOf(cells)) = num_mines

\* C4: after mine placement every non-mine cell's adjacent_mines is the
\* number of mines among its in-grid 26-neighbours.
C4_AdjacencyExact ==
    initCalls >= 1 =>
        \A i \in Indices :
            cells[i].contains.tag = "Empty" =>
                cells[i].contains.adjacent_mines
                    = Cardinality(Neighbors(i) \cap MinesOf(cells))

\* The zero-adjacency cells connected to the cells of Z through zero-adjacency
\* cells.
RECURSIVE ZeroRegion(_, _)
ZeroRegion(cs, Z) ==
    LET more == {i \in Indices \ Z : /\ cs[i].contains.tag = "Empty"
                                      /\ cs[i].contains.adjacent_mines = 0
                                      /\ Neighbors(i) \cap Z # {}}
    IN  IF more = {} THEN Z ELSE ZeroRegion(cs, Z \cup more)

\* The zero region of index and the non-mine cells next to it.
FloodSet(cs, index) ==
    LET Z == ZeroRegion(cs, {index})
    IN  Z \cup {i \in Indices \ MinesOf(cs) : Neighbors(i) \cap Z # {}}

OpensOfZero ==
    {k \in 1..Len(opens) :
        /\ opens[k].hidden
        /\ opens[k].before[opens[k].index].contains = Empty(0)}

\* C5: opening a hidden cell with adjacent_mines = 0 reveals exactly the
\* cells of its zero region and the non-mine cells next to that region: all
\* of them are revealed afterwards, no other cell and no mine becomes
\* revealed, and the cells disclosed are the opened cell and the newly
\* revealed ones.
C5_FloodFillRevealsClosure ==
    \A k \in OpensOfZero :
        LET e == opens[k]
            newly == RevealedOf(e.after) \ RevealedOf(e.before)
        IN  /\ RevealedOf(e.after) = RevealedOf(e.before) \cup FloodSet(e.before, e.index)
            /\ newly \subseteq FloodSet(e.before, e.index)
            /\ newly \cap MinesOf(e.after) = {}
            /\ {e.sent[n].id : n \in 1..Len(e.sent)} = {e.index} \cup newly
            /\ \A i \in Indices : e.after[i].contains = e.before[i].contains

\* A flood fill went through a second zero cell, revealed a bordering cell
\* with adjacent_mines > 0 and left a non-mine cell behind it hidden.
C5_Witness ==
    \E k \in OpensOfZero :
        LET e == opens[k]
            newly == RevealedOf(e.after) \ RevealedOf(e.before)
        IN  /\ \E i \in newly : e.after[i].contains = Empty(0)
            /\ \E i \in newly : e.after[i].contains.adjacent_mines > 0
            /\ \E i \in Indices \ MinesOf(e.after) : ~e.after[i].revealed

AllEmptyRevealed(cs) ==
    \A i \in Indices : cs[i].contains.tag = "Empty" => cs[i].revealed

\* C6: after every processed open command the session is reported as
\* Victory (GameResult::Victory with GameOver queued) if and only if every
\* non-mine cell is revealed at that point; the same at the end of the frame.
C6_VictoryIffAllEmptyRevealed ==
    /\ \A k \in 1..Len(opens) :
          (opens[k].game_result = "Victory" /\ opens[k].next_state = "GameOver")
              <=> AllEmptyRevealed(opens[k].after)
    /\ (FrameDone /\ opens # <<>>) =>
          ((game_result = "Victory" /\ next_state = "GameOver")
              <=> AllEmptyRevealed(cells))

\* An open command ended a session in Victory while a mine was neither
\* revealed nor marked.
C6_Witness ==
    /\ FrameDone
    /\ opens # <<>>
    /\ game_result = "Victory"
    /\ \E m \in MinesOf(cells) : ~cells[m].revealed /\ ~blocks[m].marked
    /\ \A k \in 1..Len(opens) : opens[k].after[opens[k].index].contains.tag = "Empty"

\* C7: opening a cell that contains a mine ends the session with result
\* Defeat, whatever is left to reveal; the result is never Victory after the
\* player opened a mine.
C7_MineOpenedIsDefeat ==
    FrameDone =>
        \A k \in 1..Len(opens) :
            opens[k].after[opens[k].index].contains.tag = "Mine"
                => (next_state = "GameOver" /\ game_result = "Defeat")

\* What a frame leaves behind: the cells, the blocks, the result, the session
\* state once the queued change is applied, and the disclosures (BlockEvents
\* handled), counted without their order.
CountOf(q) ==
    [e \in {q[n] : n \in DOMAIN q} |-> Cardinality({n \in DOMAIN q : q[n] = e})]

EndView(s) ==
    [cells |-> s.cells, blocks |-> s.blocks, game_result |-> s.game_result,
     state |-> apply_next_state(s).state, disclosed |-> CountOf(s.disclosed)]

EndViews(S) == {EndView(t) : t \in S}

\* Processing the commands one at a time: each command gets an Update of its
\* own, which starts when the Update of the command before it is complete
\* and its session-state change is applied.
SerialStep(s, ray) ==
    {[t EXCEPT !.disclosed = s.disclosed \o @] :
        t \in UpdateOutcomes(apply_next_state(s), <<ray>>)}

RECURSIVE Serial(_, _)
Serial(S, rays) ==
    IF rays = <<>> THEN S
    ELSE Serial(UNION {SerialStep(s, Head(rays)) : s \in S}, Tail(rays))

SerialOutcomes(s, rays) ==
    IF rays = <<>> THEN UpdateOutcomes(s, <<>>) ELSE Serial({s}, rays)

Without(q, j) == SubSeq(q, 1, j - 1) \o SubSeq(q, j + 1, Len(q))

\* The frame ended as it does without its j-th command.
Rejected(j) ==
    EndView(Prog) \in EndViews(UpdateOutcomes(frame0, Without(cmds, j)))

\* What the j-th command of the frame meets when the commands before it were
\* processed to completion.
MarkedWhenDelivered(j) ==
    \A t \in SerialOutcomes(frame0, SubSeq(cmds, 1, j - 1)) :
        t.blocks[cmds[j].aim].marked /\ ~t.cells[cmds[j].aim].revealed

RevealedWhenDelivered(j) ==
    \A t \in SerialOutcomes(frame0, SubSeq(cmds, 1, j - 1)) :
        t.cells[cmds[j].aim].revealed

\* C8: commands are serialized: the cells, blocks, disclosures and session
\* state after a frame are those of processing its commands one after the
\* other, each to completion before the next is accepted.
C8_CommandsSerialized ==
    FrameDone => EndView(Prog) \in EndViews(SerialOutcomes(frame0, cmds))

\* C9: an OpenCell command on a cell that is marked is rejected without side
\* effects, also when the mark arrived earlier in the same frame.
C9_OpenOnMarkedRejected ==
    FrameDone =>
        \A j \in 1..Len(cmds) :
            (cmds[j].kind = "ClearBlock" /\ MarkedWhenDelivered(j)) => Rejected(j)

\* C10: a ToggleMark command on a cell that is already revealed is rejected
\* without side effects, so that no cell is marked after its reveal.
C10_MarkOnRevealedRejected ==
    FrameDone =>
        \A j \in 1..Len(cmds) :
            (cmds[j].kind = "MarkBlock" /\ RevealedWhenDelivered(j)) => Rejected(j)

\* C11: an OpenCell command on a cell that is already revealed, also by a
\* command processed earlier in the same frame, is rejected: the frame ends
\* as it does without the command (no cell change, no second disclosure, same
\* session state).
C11_OpenOnRevealedRejected ==
    FrameDone =>
        \A j \in 1..Len(cmds) :
            (cmds[j].kind = "ClearBlock" /\ RevealedWhenDelivered(j)) => Rejected(j)

\* C13: once the session is in GameOver every further command is ignored:
\* the frame ends as it does without commands, no cell, mark or result
\* changes and only the EndReveal events of the reveal pass are handled.
C13_EndedIgnoresCommands ==
    (FrameDone /\ frame0.state = "GameOver") =>
        /\ EndView(Prog) \in EndViews(UpdateOutcomes(frame0, <<>>))
        /\ cells = frame0.cells
        /\ game_result = frame0.game_result
        /\ \A i \in Indices : blocks[i].marked = frame0.blocks[i].marked
        /\ \A n \in DOMAIN disclosed : disclosed[n].type = "EndReveal"
        /\ state = "GameOver" /\ next_state = "None"

\* A frame in GameOver got a command aimed at a block that was still hidden
\* (the reveal pass not yet handled).
C13_Witness ==
    /\ FrameDone
    /\ frame0.state = "GameOver"
    /\ \E j \in 1..Len(cmds) : raycast_blocks(frame0.blocks, cmds[j]) # {}

\* C14: the session state only moves forward, GameStart -> GamePlaying ->
\* GameOver or GameStart -> GameOver; no command moves it back.
C14_StateOnlyForward ==
    [][state' # state =>
          <<state, state'>> \in {<<"GameStart", "GamePlaying">>,
                                  <<"GameStart", "GameOver">>,
                                  <<"GamePlaying", "GameOver">>}]_vars

\* The session went from GamePlaying to GameOver and commands arrived after.
C14_Witness ==
    /\ FrameDone
    /\ state = "GameOver"
    /\ frame0.state = "GameOver"
    /\ frame0.block_events = <<>>
    /\ cmds # <<>>

\* The FieldEvents of q whose index is inside the grid.
InGrid(q) == SelectSeq(q, LAMBDA e : e.index \in Indices)

FieldView(t) ==
    [end |-> EndView(t), next_state |-> t.next_state, initCalls |-> t.initCalls]

\* C12: an open command whose index is outside the grid is a no-op: the
\* frame ends as it does without that command, and a frame with only such
\* commands changes no cell, triggers no mine placement, discloses nothing
\* and leaves the session state as it was.
C12_OutOfGridOpenIsNoOp ==
    FrameDone =>
        /\ FieldView(Prog) \in
               {FieldView(BlockSystem(f)) :
                   f \in FieldSystem([frame0 EXCEPT !.field_events = InGrid(@)])}
        /\ InGrid(frame0.field_events) = <<>> =>
               /\ cells = frame0.cells
               /\ initCalls = frame0.initCalls
               /\ state = frame0.state
               /\ next_state = frame0.next_state
               /\ game_result = frame0.game_result
               /\ disclosed = frame0.block_events

\* A session in GameStart handled open commands outside the grid only and is
\* still in GameStart with no mines placed.
C12_Witness ==
    /\ FrameDone
    /\ frame0.field_events # <<>>
    /\ InGrid(frame0.field_events) = <<>>
    /\ state = "GameStart"
    /\ next_state = "None"
    /\ initCalls = 0

\* C15: once mines are placed no later operation changes a cell's contains:
\* not the open that follows the placement, not a later open of the same
\* frame, not any later frame.
C15_ContainsImmutable ==
    /\ \A k \in 1..Len(opens) : \A i \in Indices :
          opens[k].after[i].contains = opens[k].before[i].contains
    /\ \A k \in 2..Len(opens) : \A i \in Indices :
          opens[k].before[i].contains = opens[k - 1].after[i].contains
    /\ (frame0.initCalls >= 1) =>
          \A i \in Indices : cells[i].contains = frame0.cells[i].contains

\* C16: the flood fill of one open command terminates with at most N reveal
\* operations on an N-cell grid: it reveals only cells that were hidden and
\* reveals and discloses no cell twice.
C16_FloodFillBounded ==
    \A k \in 1..Len(opens) :
        LET e == opens[k] IN
        /\ Len(e.sent) <= Cardinality(Indices)
        /\ \A m, n \in 1..Len(e.sent) : m # n => e.sent[m].id # e.sent[n].id
        /\ \A n \in 2..Len(e.sent) : ~e.before[e.sent[n].id].revealed
        /\ e.sent[1].id = e.index

\* A flood fill revealed a cell with a number that has two revealed
\* zero-adjacency neighbours (two ways to reach it).
C16_Witness ==
    \E k \in OpensOfZero :
        LET e == opens[k] IN
        \E n \in 2..Len(e.sent) :
            /\ e.sent[n].contains.adjacent_mines > 0
            /\ Cardinality({z \in Neighbors(e.sent[n].id) :
                               /\ e.after[z].revealed
                               /\ e.after[z].contains = Empty(0)}) >= 2

\* The candidates of an initialize with click_location c: every cell outside
\* the safe set of the policy.
Candidates(c) ==
    Indices \ (CASE safety = "Random" -> {}
                 [] safety = "Safe" -> {c}
                 [] safety = "Clear" -> {c} \cup Neighbors(c))

\* C17: when num_mines > |candidates| an initialization leaves a mine on
\* every candidate cell and on no cell of the safe set, so the mine count is
\* |candidates|.
C17_DenseFieldFillsCandidates ==
    \A k \in 1..Len(opens) :
        (opens[k].init /\ num_mines > Cardinality(Candidates(opens[k].index)))
            => MinesOf(opens[k].before) = Candidates(opens[k].index)

Min(a, b) == IF a <= b THEN a ELSE b

\* total_cells * density rounded to the nearest integer (halves upwards).
RoundedTarget ==
    CHOOSE k \in 0..Cardinality(Indices) :
        /\ (2 * k - 1) * density[2] <= 2 * Cardinality(Indices) * density[1]
        /\ 2 * Cardinality(Indices) * density[1] < (2 * k + 1) * density[2]

\* total_cells * density truncated to an integer.
TruncatedTarget ==
    CHOOSE k \in 0..Cardinality(Indices) :
        /\ k * density[2] <= Cardinality(Indices) * density[1]
        /\ Cardinality(Indices) * density[1] < (k + 1) * density[2]

\* The mines on the field right after the first initialize of the session.
FirstPlacement == MinesOf(opens[1].before)

\* C18 as stated: the target mine count of initialization is
\* round(total_cells * density): the first initialize places that many mines
\* when the candidates allow it.
C18_TargetIsRounded ==
    (opens # <<>> /\ opens[1].init) =>
        Cardinality(FirstPlacement)
            = Min(RoundedTarget, Cardinality(Candidates(opens[1].index)))

\* C18 amended: the target mine count of initialization is
\* total_cells * density truncated toward zero: the first initialize places
\* that many mines when the candidates allow it.
C18_TargetIsTruncated ==
    (opens # <<>> /\ opens[1].init) =>
        Cardinality(FirstPlacement)
            = Min(TruncatedTarget, Cardinality(Candidates(opens[1].index)))

\* An initialize whose product total_cells * density is not an integer, on
\* candidates that have room for the rounded count.
C18_Witness ==
    /\ opens # <<>>
    /\ opens[1].init
    /\ (Cardinality(Indices) * density[1]) % density[2] # 0
    /\ Cardinality(Candidates(opens[1].index)) >= RoundedTarget
    /\ RoundedTarget # TruncatedTarget

\* The number of EndReveal events for cell i in the queue q.
EndRevealsFor(q, i) ==
    Cardinality({n \in DOMAIN q : q[n].type = "EndReveal" /\ q[n].id = i})

HasEndReveal(q) == \E n \in DOMAIN q : q[n].type = "EndReveal"

\* The step in which the session enters GameOver.
EntersGameOver == state # "GameOver" /\ state' = "GameOver"

\* The step in which reveal_all sent its events.
RevealPassRan == ~HasEndReveal(block_events) /\ HasEndReveal(block_events')

\* C19 as stated: on entering GameOver the reveal pass emits exactly one
\* EndReveal for each cell that was still hidden at that moment and none for
\* a cell already revealed during play.
C19_RevealPassHiddenCellsOnly ==
    [][EntersGameOver =>
          \A i \in Indices :
              EndRevealsFor(block_events', i) = IF cells[i].revealed THEN 0 ELSE 1]_vars

\* C19 amended: the reveal pass runs exactly once, in the step that enters
\* GameOver (never before, never again afterwards), and emits exactly one
\* EndReveal with the cell's contents for every cell of the grid, hidden or
\* already revealed.
C19_RevealPassOnceEveryCell ==
    [][/\ EntersGameOver =>
             /\ RevealPassRan
             /\ Len(block_events') = Cardinality(Indices)
             /\ \A i \in Indices : EndRevealsFor(block_events', i) = 1
             /\ \A n \in DOMAIN block_events' :
                   block_events'[n].contains = cells[block_events'[n].id].contains
       /\ RevealPassRan => EntersGameOver
       /\ state = "GameOver" => state' = "GameOver"]_vars

\* The session has just entered GameOver with the reveal pass pending, with
\* a cell revealed during play and a cell still hidden.
C19_Witness ==
    /\ pc = "camera_controls"
    /\ state = "GameOver"
    /\ HasEndReveal(block_events)
    /\ \E i \in Indices : blocks[i].revealed # None
    /\ \E i \in Indices : blocks[i].revealed = None

\* The first open command of the session was processed and its initialize
\* placed no mine.
FirstOpenNoMines ==
    /\ opens # <<>>
    /\ opens[1].init
    /\ FirstPlacement = {}

\* C20: when initialization places zero mines the first open command
\* reveals every cell of the grid in one flood fill, each disclosed once, and
\* the session is reported Victory at once.
C20_NoMinesFirstOpenWins ==
    FirstOpenNoMines =>
        /\ RevealedOf(opens[1].after) = Indices
        /\ {opens[1].sent[n].id : n \in 1..Len(opens[1].sent)} = Indices
        /\ Len(opens[1].sent) = Cardinality(Indices)
        /\ opens[1].game_result = "Victory"
        /\ opens[1].next_state = "GameOver"
        /\ FrameDone => (game_result = "Victory" /\ next_state = "GameOver")

\* Zero mines were placed and the first open was at a cell with a cell of
\* the grid beyond its neighbours, which only the recursion reaches; the
\* frame is complete.
C20_Witness ==
    /\ FirstOpenNoMines
    /\ FrameDone
    /\ \E i \in Indices : i \notin {opens[1].index} \cup Neighbors(opens[1].index)

MarksOn(i) == Cardinality({j \in DOMAIN cmds : cmds[j].aim = i})

OnlyMarks == cmds # <<>> /\ \A j \in DOMAIN cmds : cmds[j].kind = "MarkBlock"

\* C21: a frame of MarkBlock commands in a playable state leaves the cells
\* (contains, revealed, mine placement), the session state, the queued state,
\* the game result and the initialize count as they were, and Block.revealed
\* too; the marked flag of a hidden block is flipped once per command aimed
\* at it and that of every other block is unchanged; two toggles on the same
\* block restore the block and its display.
C21_ToggleMarkFlipsOnlyMark ==
    (FrameDone /\ playable(frame0.state) /\ OnlyMarks) =>
        /\ cells = frame0.cells
        /\ fully_revealed(cells) = fully_revealed(frame0.cells)
        /\ state = frame0.state
        /\ next_state = frame0.next_state
        /\ game_result = frame0.game_result
        /\ initCalls = frame0.initCalls
        /\ opens = <<>>
        /\ \A i \in Indices :
              /\ blocks[i].revealed = frame0.blocks[i].revealed
              /\ blocks[i].marked =
                    IF frame0.blocks[i].revealed = None /\ MarksOn(i) % 2 = 1
                    THEN ~frame0.blocks[i].marked
                    ELSE frame0.blocks[i].marked
              /\ display[i] =
                    IF frame0.blocks[i].revealed = None /\ MarksOn(i) % 2 = 1
                    THEN (IF frame0.blocks[i].marked THEN Hidden ELSE Marked)
                    ELSE frame0.display[i]

\* A frame of two toggles on one hidden block of a field with mines placed,
\* and an earlier toggle on another block.
C21_Witness ==
    /\ FrameDone /\ frame0.state = "GamePlaying" /\ OnlyMarks
    /\ Len(cmds) = 2 /\ cmds[1].aim = cmds[2].aim
    /\ frame0.blocks[cmds[1].aim].revealed = None
    /\ MinesOf(cells) # {}
    /\ \E i \in Indices : blocks[i].marked

\* The positions of the frame's Clear disclosures for cell i.
ClearsFor(q, i) == {n \in DOMAIN q : q[n].type = "Clear" /\ q[n].id = i}

\* C22: before the end-of-round pass a cell is revealed at most once: the
\* Clear disclosures of a frame name cells that were unrevealed when the
\* frame began, each cell at most once, and a revealed cell stays revealed.
C22_RevealedAtMostOnce ==
    (FrameDone /\ playable(frame0.state)) =>
        \A i \in Indices :
            /\ Cardinality(ClearsFor(disclosed, i)) <= 1
            /\ ClearsFor(disclosed, i) # {} => ~frame0.cells[i].revealed
            /\ frame0.cells[i].revealed => cells[i].revealed

\* ---------------------------------------------------------------------
\* Opens of a mine or of a numbered cell
\* ---------------------------------------------------------------------
\* The opens of the frame that hit an unrevealed cell holding a mine or a
\* positive adjacent_mines.
OpensOfMineOrNumbered ==
    {k \in DOMAIN opens :
        /\ opens[k].hidden
        /\ LET c == opens[k].before[opens[k].index].contains
           IN  c.tag = "Mine" \/ c.adjacent_mines > 0}

\* C23: an open of a hidden cell holding a mine or a positive adjacent_mines
\* reveals that cell alone: no other revealed flag changes, no contents
\* change, and the one disclosure sent is the Clear of that cell with its
\* contents.
C23_MineOrNumberedRevealsOneCell ==
    \A k \in OpensOfMineOrNumbered :
        /\ opens[k].after = opens[k].before
        /\ RevealedOf(opens[k].after) = RevealedOf(opens[k].before)
        /\ opens[k].index \in RevealedOf(opens[k].after)
        /\ opens[k].sent =
              <<BlockClear(opens[k].index, opens[k].before[opens[k].index].contains)>>

\* An open of a numbered cell with an unrevealed empty neighbour left hidden.
C23_Witness ==
    \E k \in OpensOfMineOrNumbered :
        /\ opens[k].before[opens[k].index].contains.tag = "Empty"
        /\ \E j \in Neighbors(opens[k].index) :
              /\ ~opens[k].after[j].revealed
              /\ opens[k].after[j].contains.tag = "Empty"

\* ---------------------------------------------------------------------
\* Marks and the flood fill
\* ---------------------------------------------------------------------
\* C24: a flood fill reveals the cells of its flood set whether their blocks
\* are marked or not: after an open of a zero cell the revealed cells are
\* those revealed before plus the flood set, which is computed from the
\* cells alone, and at the end of the frame every block of the flood set,
\* marked ones included, is revealed and no longer displayed as Hidden or
\* Marked.
C24_MarksDoNotBlockFloodFill ==
    (FrameDone /\ playable(frame0.state)) =>
        \A k \in OpensOfZero :
            LET e == opens[k] IN
            /\ RevealedOf(e.after) = RevealedOf(e.before) \cup FloodSet(e.before, e.index)
            /\ \A i \in FloodSet(e.before, e.index) :
                  /\ cells[i].revealed
                  /\ blocks[i].revealed # None
                  /\ display[i] \notin {Hidden, Marked}

\* A flood fill reached a hidden cell whose block was marked when the frame
\* began, and the block is revealed at the end of the frame.
C24_Witness ==
    /\ FrameDone /\ playable(frame0.state)
    /\ \E k \in OpensOfZero :
          \E i \in FloodSet(opens[k].before, opens[k].index) \ {opens[k].index} :
              /\ frame0.blocks[i].marked
              /\ ~frame0.cells[i].revealed
              /\ blocks[i].revealed # None
              /\ display[i] = Revealed(cells[i].contains.adjacent_mines)

\* ---------------------------------------------------------------------
\* The session before the first open
\* ---------------------------------------------------------------------
\* The session is in Start: the state is GameStart and no state is queued.
InStart(s) == s.state = "GameStart" /\ s.next_state = "None"

\* C25: while the session is in Start every cell is Empty with
\* adjacent_mines = 0 and unrevealed and initialize has not run; a frame of
\* MarkBlock commands begun in Start ends in Start with no mines placed;
\* and once the session is out of Start an open of a cell of the grid has
\* been processed.
C25_StartHasNoMines ==
    /\ InStart(Prog) =>
          /\ \A i \in Indices : cells[i] = DefaultCell
          /\ initCalls = 0
          /\ firstOpen = {}
    /\ (FrameDone /\ InStart(frame0) /\ OnlyMarks) =>
          /\ InStart(Prog)
          /\ MinesOf(cells) = {}
          /\ initCalls = 0
    /\ ~InStart(Prog) =>
          /\ SomeOpenProcessed
          /\ firstOpen # {} /\ firstOpen \subseteq Indices
          /\ initCalls >= 1

\* A frame of MarkBlock commands ended in Start with a block marked, on a
\* field whose density places mines at the first open.
C25_Witness ==
    /\ FrameDone /\ InStart(frame0) /\ OnlyMarks /\ InStart(Prog)
    /\ \E i \in Indices : blocks[i].marked
    /\ density[1] > 0

\* ---------------------------------------------------------------------
\* The end-of-round displays
\* ---------------------------------------------------------------------
\* The display BlockEvent::EndReveal gives a cell holding contents c whose
\* block was b before the pass.
EndDisplay(b, c) ==
    IF c.tag = "Mine"
    THEN IF b.revealed # None THEN MissedMine
         ELSE IF b.marked THEN MarkedMine
         ELSE RevealedMine
    ELSE Revealed(c.adjacent_mines)

\* C28: after the end-of-round pass every mine has one of three displays: a
\* mine revealed during play (the one the player opened) the red
\* BlockDisplay::MissedMine, an unrevealed mine whose block is marked the
\* green MarkedMine, an unrevealed unmarked mine the plain RevealedMine; an
\* empty cell is displayed as Revealed with its adjacent_mines.
C28_EndOfRoundDisplays ==
    (FrameDone /\ HasEndReveal(disclosed)) =>
        \A i \in Indices :
            /\ display[i] = EndDisplay(frame0.blocks[i], cells[i].contains)
            /\ blocks[i].revealed = cells[i].contains

\* A round ended with an opened mine, a marked unopened mine and an unmarked
\* unopened mine.
C28_Witness ==
    /\ FrameDone /\ HasEndReveal(disclosed)
    /\ \E i, j, k \in MinesOf(cells) :
          /\ frame0.blocks[i].revealed # None /\ display[i] = MissedMine
          /\ frame0.blocks[j].revealed = None /\ frame0.blocks[j].marked
          /\ display[j] = MarkedMine
          /\ frame0.blocks[k].revealed = None /\ ~frame0.blocks[k].marked
          /\ display[k] = RevealedMine

\* ---------------------------------------------------------------------
\* Blocks and cells
\* ---------------------------------------------------------------------
\* C29: at the end of every frame of play the blocks agree with the field:
\* Block.revealed is set exactly for the cells whose revealed is true, and
\* it then holds the cell's contains.
C29_BlocksAgreeWithField ==
    (FrameDone /\ playable(frame0.state)) =>
        \A i \in Indices :
            /\ blocks[i].revealed # None <=> cells[i].revealed
            /\ blocks[i].revealed # None => blocks[i].revealed = cells[i].contains

\* ---------------------------------------------------------------------
\* Progress of opens
\* ---------------------------------------------------------------------
\* The cells revealed when the k-th open of the frame reached the field.
RevealedBeforeOpen(k) ==
    RevealedOf(opens[k].before) \ (IF opens[k].hidden THEN {opens[k].index} ELSE {})

\* C30: every open command that handle_ray_events accepted (its block was
\* hidden and unmarked) and handle_field_events processed leaves strictly
\* more cells revealed than there were before it.
C30_AcceptedOpenRevealsMore ==
    \A k \in DOMAIN opens :
        Cardinality(RevealedOf(opens[k].after)) > Cardinality(RevealedBeforeOpen(k))

\* ---------------------------------------------------------------------
\* The first open under Safety::Clear
\* ---------------------------------------------------------------------
\* The open that took the session out of GameStart with nothing initialized
\* before it: the first open of the session.
FirstOpens ==
    {k \in DOMAIN opens : k = 1 /\ opens[k].init /\ frame0.initCalls = 0}

\* C31: under Safety::Clear the first-opened cell holds adjacent_mines = 0
\* after initialize, the open runs the flood fill, and once that open is
\* done the opened cell and all its in-grid neighbours are revealed, none of
\* them is a mine, and each of them has been disclosed.
C31_ClearFirstOpenFloods ==
    safety = "Clear" =>
        \A k \in FirstOpens :
            LET e == opens[k]
                around == {e.index} \cup Neighbors(e.index)
            IN  /\ e.hidden
                /\ e.before[e.index].contains = Empty(0)
                /\ around \cap MinesOf(e.after) = {}
                /\ around \subseteq RevealedOf(e.after)
                /\ {e.sent[n].id : n \in 1..Len(e.sent)} = RevealedOf(e.after)
                /\ e.sent[1] = BlockClear(e.index, Empty(0))

\* A first open under Clear on a field where initialize placed a mine, which
\* stays hidden behind the revealed neighbours.
C31_Witness ==
    /\ safety = "Clear"
    /\ \E k \in FirstOpens :
          /\ Neighbors(opens[k].index) # {}
          /\ MinesOf(opens[k].after) # {}
          /\ MinesOf(opens[k].after) \cap RevealedOf(opens[k].after) = {}

\* ---------------------------------------------------------------------
\* The result of the session
\* ---------------------------------------------------------------------
\* The frame handled the Clear of a mine: the arm of handle_block_events
\* that ends the session as lost ran.
DefeatSignalled ==
    \E n \in DOMAIN disclosed :
        disclosed[n].type = "Clear" /\ disclosed[n].contains.tag = "Mine"

\* The victory branch of handle_field_events ran.
VictorySignalled == game_result = "Victory"

\* The result does not change in a frame that began in GameOver.
ResultKeptOnceEnded ==
    (FrameDone /\ frame0.state = "GameOver") =>
        /\ state = "GameOver"
        /\ game_result = frame0.game_result

\* C32: a session ends with a single result: no frame, whatever commands it
\* carries, leaves the session both lost (a mine was cleared, GameOver
\* queued by handle_block_events) and won (GameResult::Victory), and once
\* the session is in GameOver the result stays as it is.
C32_SingleResult ==
    /\ FrameDone => ~(DefeatSignalled /\ VictorySignalled)
    /\ ResultKeptOnceEnded

\* ---------------------------------------------------------------------
\* The configuration of the field
\* ---------------------------------------------------------------------
\* C33: no step of a session changes the field's dimensions, its density or
\* its safety policy: the cell array and the blocks keep the index set of
\* the size the field was created with, and density and safety keep their
\* values, through opens, marks, flood fills and the end-of-round pass.
C33_ConfigurationFixed ==
    /\ [](DOMAIN cells = IndicesOf(field_size) /\ DOMAIN blocks = IndicesOf(field_size))
    /\ [][/\ field_size' = field_size
          /\ density' = density
          /\ safety' = safety
          /\ DOMAIN cells' = DOMAIN cells]_vars

\* A session with mines placed went through a mark, an open with a flood
\* fill and the end-of-round pass.
C33_Witness ==
    /\ FrameDone /\ state = "GameOver" /\ HasEndReveal(disclosed)
    /\ density[1] > 0 /\ MinesOf(cells) # {}
    /\ \E i \in Indices : blocks[i].marked
    /\ \E i \in Indices : cells[i].contains = Empty(0)
    /\ \A i \in Indices : cells[i].revealed
====
